---- MODULE Spec2Model ----
(***************************************************************************)
(* A model of lazily (src/index.js): the controller returned by the        *)
(* lazily() factory, the IntersectionObserver instances it creates, the    *)
(* promises made by fetchImages and the <img> elements of the document.    *)
(*                                                                         *)
(* One step of the model is one run-to-completion piece of JavaScript: a   *)
(* public call (init, update, destroy), one delivery of a batch of         *)
(* IntersectionObserverEntry objects to onEntry, one load/error event of   *)
(* an Image probe, or one promise reaction (the then/catch handlers of     *)
(* loadImage).  The host inserts elements into the document.               *)
(***************************************************************************)
EXTENDS Integers, Sequences, FiniteSets

\* ------------------------------------------------------------------ bounds

NumElems == 2        \* <img> elements that can be inserted in the document
MaxObservers == 2    \* IntersectionObserver instances one controller creates
MaxInFlight == 2     \* loads of one element in flight at a time
MaxUnderflow == 1    \* how far below zero imageCount is followed

Elems == 1..NumElems

\* ------------------------------------------------------- JavaScript values

\* A JavaScript value passed as an option: its typeof, its string value and
\* its number (in hundredths, so that 0.5 is 50); NaN is a number that fails
\* every comparison.
JsValue(t, s, n) == [type |-> t, str |-> s, num |-> n]
JsUndefined == JsValue("undefined", "", 0)
JsNull == JsValue("object", "null", 0)
JsString(s) == JsValue("string", s, 0)
JsNumber(n) == JsValue("number", "", n)
JsNaN == JsValue("number", "NaN", 0)
JsTrue == JsValue("boolean", "true", 0)
JsFunction == JsValue("function", "", 0)

\* getAttribute() of an absent attribute, and JavaScript truthiness of an
\* attribute value (null and "" are falsy).
Null == "null"
Truthy(s) == s # Null /\ s # ""

SrcUrl == "my-image.jpg"
SrcsetUrls == "my-image--mobile.jpg 460w"
Placeholder == "data:image/gif"

\* ------------------------------------------------------------------- state

VARIABLES
    options,      \* the options object passed to lazily()
    ioAvailable,  \* 'IntersectionObserver' in window
    doc,          \* the elements matching the selector: attributes, classes
    imageArray,   \* let imageArray
    imageCount,   \* let imageCount: <<>> is undefined, <<n>> the number n
    observer,     \* let observer: 0 is undefined/null, else an instance
    observers,    \* every IntersectionObserver the controller constructed
    loads,        \* the promises of fetchImages not yet reacted to
    postDestroy,  \* since the last destroy() with no init() after it: "quiet",
                  \* onEntry "handled" an intersecting entry, or "loaded" it
    last          \* the step just taken and what it raised

vars == <<options, ioAvailable, doc, imageArray, imageCount, observer,
          observers, loads, postDestroy, last>>

NoObserver == 0
Undefined == <<>>
Num(n) == <<n>>

IsObserver(o) == o # NoObserver

\* ------------------------------------------------------------ the options

OptionNames == {"selector", "loadClass", "errorClass", "loadCallback",
                "errorCallback", "rootId", "rootMargin", "threshold"}

\* The destructuring defaults of the factory's parameter.
Default(name) ==
    CASE name = "selector" -> JsString(".js-lazily-image")
      [] name = "loadClass" -> JsString("has-loaded")
      [] name = "errorClass" -> JsString("has-error")
      [] name = "rootMargin" -> JsString("0px 0px 0px 0px")
      [] name = "threshold" -> JsNumber(0)
      [] OTHER -> JsUndefined

\* The binding the closure sees for an option: a default replaces undefined.
Option(name) ==
    IF options[name] = JsUndefined THEN Default(name) ELSE options[name]

NoOptions == [name \in OptionNames |-> JsUndefined]

\* The string options in the key order of stringOptionsMap.
StringOptions == <<"selector", "loadClass", "errorClass", "rootId", "rootMargin">>

NoError == "none"

BadStringOption(name) ==
    /\ Option(name) # JsUndefined
    /\ (Option(name).type # "string" \/ Option(name).str = "")

\* A validator that takes the interval as open at 0.
BadThreshold_OpenAtZero ==
    \/ Option("threshold").type # "number"
    \/ ~ ( /\ Option("threshold").str # "NaN"
           /\ Option("threshold").num > 0
           /\ Option("threshold").num <= 100 )

BadThreshold ==
    \/ Option("threshold").type # "number"
    \/ ~ ( /\ Option("threshold").str # "NaN"
           /\ Option("threshold").num >= 0
           /\ Option("threshold").num <= 100 )

\* handleConfigErrors: the option named by the error it throws, or NoError.
handleConfigErrors ==
    IF \E i \in 1..Len(StringOptions) : BadStringOption(StringOptions[i])
    THEN StringOptions[CHOOSE i \in 1..Len(StringOptions) :
                          /\ BadStringOption(StringOptions[i])
                          /\ \A j \in 1..(i-1) : ~BadStringOption(StringOptions[j])]
    ELSE IF BadThreshold THEN "threshold" ELSE NoError

IsCallback(name) == Option(name) # JsUndefined /\ Option(name).type = "function"

\* ----------------------------------------------------------- the document

AbsentElement ==
    [present |-> FALSE, dataSrc |-> Null, dataSrcset |-> Null,
     src |-> Placeholder, srcset |-> Null, classList |-> {}]

\* The data- attributes an inserted element can carry.
Profiles ==
    { [dataSrc |-> SrcUrl, dataSrcset |-> Null],
      [dataSrc |-> Null, dataSrcset |-> SrcsetUrls],
      [dataSrc |-> "", dataSrcset |-> Null] }

NewElement(p) ==
    [AbsentElement EXCEPT !.present = TRUE, !.dataSrc = p.dataSrc,
                          !.dataSrcset = p.dataSrcset]

\* hasAttribute
hasNotBeenLoaded(d, e) == d[e].dataSrc # Null \/ d[e].dataSrcset # Null

\* The first n elements of the document, in document order, that still carry
\* a data- attribute.
RECURSIVE Matching(_, _)
Matching(d, n) ==
    IF n = 0 THEN <<>>
    ELSE IF d[n].present /\ hasNotBeenLoaded(d, n)
         THEN Append(Matching(d, n - 1), n)
         ELSE Matching(d, n - 1)

\* Array.from(d.querySelectorAll(selector)).filter(hasNotBeenLoaded)
getElementsAsArray(d) == Matching(d, NumElems)

stripDataAttributes(el) == [el EXCEPT !.dataSrc = Null, !.dataSrcset = Null]

\* applyImage up to the call of loadCallback.
applyImage(el, src, srcset) ==
    LET a == IF Truthy(src) THEN [el EXCEPT !.src = src] ELSE el
        b == IF Truthy(srcset) THEN [a EXCEPT !.srcset = srcset] ELSE a
        c == stripDataAttributes(b)
    IN [c EXCEPT !.classList = @ \cup {Option("loadClass").str}]

\* A handleImageError that leaves the data- attributes on the element.
handleImageError_KeepsAttributes(el) ==
    [el EXCEPT !.classList = @ \cup {Option("errorClass").str}]

\* A handleImageError that forgets the error class.
handleImageError_NoClass(el) == stripDataAttributes(el)

\* handleImageError up to the call of errorCallback.
handleImageError(el) ==
    LET c == stripDataAttributes(el)
    IN [c EXCEPT !.classList = @ \cup {Option("errorClass").str}]

\* ---------------------------------------------------------------- loading

\* A fetchImages without `if (!srcUrl && !srcsetUrls) reject()`.
fetchImages_NeverRejectsItself(e, srcUrl, srcsetUrls) ==
    [img |-> e, src |-> srcUrl, srcset |-> srcsetUrls, st |-> "pending"]

\* fetchImages: the promise is rejected at once when both URLs are falsy,
\* and is otherwise pending until the Image probe reports load or error.
fetchImages(e, srcUrl, srcsetUrls) ==
    [img |-> e, src |-> srcUrl, srcset |-> srcsetUrls,
     st |-> IF ~Truthy(srcUrl) /\ ~Truthy(srcsetUrls) THEN "rejected" ELSE "pending"]

\* loadImage: reads the data- attributes and makes the promise.
loadImage(d, e) == fetchImages(e, d[e].dataSrc, d[e].dataSrcset)

\* A loop that walks the images from the last to the first.
LoadEach_Backwards(d, images) ==
    [i \in 1..Len(images) |-> loadImage(d, images[Len(images) + 1 - i])]

\* A loop that stops one image short.
LoadEach_StopsShort(d, images) ==
    [i \in 1..(Len(images) - 1) |-> loadImage(d, images[i])]

\* images.forEach(image => loadImage(image))
LoadEach(d, images) == [i \in 1..Len(images) |-> loadImage(d, images[i])]

Count(images, e) == Cardinality({i \in 1..Len(images) : images[i] = e})

InFlight(e) == Cardinality({i \in 1..Len(loads) : loads[i].img = e})

CanIssue(images) == \A e \in Elems : InFlight(e) + Count(images, e) <= MaxInFlight

Settled(l) == l.st # "pending"

\* No promise reaction is queued: the host runs the queued reactions before
\* it delivers the next event.
NoJobs == \A i \in 1..Len(loads) : ~Settled(loads[i])

\* -------------------------------------------------------------- observers

Range(s) == {s[i] : i \in 1..Len(s)}

\* observeImages
observeImages(images, obs, o) ==
    [obs EXCEPT ![o].targets = @ \cup Range(images)]

Connected == {o \in 1..Len(observers) : observers[o].connected}

\* The record of a step: the operation and the error it raised to the host;
\* for a batch given to onEntry the targets of its intersecting entries, in
\* order; for a promise reaction the element, what settled the promise
\* (image.onload, image.onerror or the reject() of fetchImages itself), the
\* handlers of the controller that ran, the callbacks called and the
\* callbacks that raised.
Step(op, err) ==
    [op |-> op, err |-> err, hits |-> <<>>, img |-> 0, by |-> "",
     ran |-> <<>>, calls |-> <<>>, raised |-> {}]

\* The controller's own state, as the closure of lazily() holds it.
Ctl ==
    [observer |-> observer, observers |-> observers,
     imageArray |-> imageArray, imageCount |-> imageCount]

SetCtl(c) ==
    /\ observer' = c.observer
    /\ observers' = c.observers
    /\ imageArray' = c.imageArray
    /\ imageCount' = c.imageCount

\* A resetState that forgets `observer = null`.
resetState_KeepsObserver(c) ==
    IF ~IsObserver(c.observer) THEN c
    ELSE [observer |-> c.observer,
          observers |-> [c.observers EXCEPT ![c.observer] =
                            [connected |-> FALSE, targets |-> {}]],
          imageArray |-> <<>>,
          imageCount |-> Num(0)]

\* resetState: nothing without an observer; else disconnect it, drop it,
\* empty imageArray and zero imageCount.
resetState(c) ==
    IF ~IsObserver(c.observer) THEN c
    ELSE [observer |-> NoObserver,
          observers |-> [c.observers EXCEPT ![c.observer] =
                            [connected |-> FALSE, targets |-> {}]],
          imageArray |-> <<>>,
          imageCount |-> Num(0)]

\* ------------------------------------------------------- the configurations

CallbackValues == {JsUndefined, JsFunction}

\* The configurations the controller is run with: the defaults, both
\* callbacks given, and two configurations handleConfigErrors rejects.
RunOptions ==
    { [NoOptions EXCEPT !.loadCallback = c, !.errorCallback = c] :
          c \in CallbackValues }
    \cup { [NoOptions EXCEPT !.selector = JsString("")],
           [NoOptions EXCEPT !.threshold = JsNumber(150)] }

Init ==
    /\ options \in RunOptions
    /\ ioAvailable \in BOOLEAN
    /\ doc = [e \in Elems |-> AbsentElement]
    /\ imageArray = <<>>
    /\ imageCount = Undefined
    /\ observer = NoObserver
    /\ observers = <<>>
    /\ loads = <<>>
    /\ postDestroy = "no"
    /\ last = Step("new", NoError)

\* ------------------------------------------------------------ public calls

\* The embedder's script can call the controller when no promise reaction is
\* queued, or when its own calls queued them and it is still running: the
\* host runs every queued reaction as soon as the running script or event
\* handler returns.
InScript == NoJobs \/ last.op \in {"init", "update", "destroy"}

\* An init() that validates the options only after it scanned the document.
InitCall_ScansFirst ==
    LET err == handleConfigErrors
        images == getElementsAsArray(doc)
    IN /\ InScript
       /\ postDestroy' = "no"
       /\ last' = Step("init", err)
       /\ imageArray' = images
       /\ imageCount' = Num(Len(images))
       /\ UNCHANGED <<options, ioAvailable, doc>>
       /\ IF err # NoError \/ Len(images) = 0
          THEN UNCHANGED <<observer, observers, loads>>
          ELSE IF ~ioAvailable
          THEN /\ CanIssue(images)
               /\ loads' = loads \o LoadEach(doc, images)
               /\ UNCHANGED <<observer, observers>>
          ELSE /\ Len(observers) < MaxObservers
               /\ observer' = Len(observers) + 1
               /\ observers' = observeImages(images,
                      Append(observers, [connected |-> TRUE, targets |-> {}]),
                      Len(observers) + 1)
               /\ UNCHANGED loads

\* init()
InitCall ==
    LET err == handleConfigErrors
        images == getElementsAsArray(doc)
    IN /\ InScript
       /\ postDestroy' = "no"
       /\ last' = Step("init", err)
       /\ UNCHANGED <<options, ioAvailable, doc>>
       /\ IF err # NoError
          THEN UNCHANGED <<imageArray, imageCount, observer, observers, loads>>
          ELSE /\ imageArray' = images
               /\ imageCount' = Num(Len(images))
               /\ IF Len(images) = 0
                  THEN UNCHANGED <<observer, observers, loads>>
                  ELSE IF ~ioAvailable
                  THEN /\ CanIssue(images)
                       /\ loads' = loads \o LoadEach(doc, images)
                       /\ UNCHANGED <<observer, observers>>
                  ELSE /\ Len(observers) < MaxObservers
                       /\ observer' = Len(observers) + 1
                       /\ observers' = observeImages(images,
                              Append(observers, [connected |-> TRUE, targets |-> {}]),
                              Len(observers) + 1)
                       /\ UNCHANGED loads

\* An update() without the early return: it rescans with no observer too.
UpdateCall_AlwaysRescans ==
    LET images == getElementsAsArray(doc)
    IN /\ InScript
       /\ last' = Step("update", NoError)
       /\ UNCHANGED <<options, ioAvailable, doc, observer, loads, postDestroy>>
       /\ imageArray' = images
       /\ imageCount' = Num(Len(images))
       /\ IF Len(images) = 0 \/ ~IsObserver(observer)
          THEN UNCHANGED observers
          ELSE observers' = observeImages(images, observers, observer)

\* update()
UpdateCall ==
    LET images == getElementsAsArray(doc)
    IN /\ InScript
       /\ last' = Step("update", NoError)
       /\ UNCHANGED <<options, ioAvailable, doc, observer, loads, postDestroy>>
       /\ IF ~IsObserver(observer)
          THEN UNCHANGED <<imageArray, imageCount, observers>>
          ELSE /\ imageArray' = images
               /\ imageCount' = Num(Len(images))
               /\ IF Len(images) = 0
                  THEN UNCHANGED observers
                  ELSE observers' = observeImages(images, observers, observer)

\* destroy()
DestroyCall ==
    /\ InScript
    /\ SetCtl(resetState(Ctl))
    /\ postDestroy' = "quiet"
    /\ last' = Step("destroy", NoError)
    /\ UNCHANGED <<options, ioAvailable, doc, loads>>

\* ------------------------------------------------------------ notifications

\* The batches an observer watching the targets T can deliver: entries for
\* distinct targets, each intersecting or not.
Batches(T) ==
    { b \in UNION { [1..n -> T \X BOOLEAN] : n \in 1..Cardinality(T) } :
          \A i, j \in 1..Len(b) : i # j => b[i][1] # b[j][1] }

IsHit(entry) == entry[2]

\* The targets of the intersecting entries, in the order of the batch.
Hits(entries) ==
    LET hit == SelectSeq(entries, IsHit)
    IN [i \in 1..Len(hit) |-> hit[i][1]]

\* onEntry, called by the connected observer o with a batch of entries.
Notify ==
    \E o \in Connected : \E entries \in Batches(observers[o].targets) :
        LET hits == Hits(entries)
            count == imageCount[1] - Len(hits)
            unobserved == [observers EXCEPT ![observer].targets = @ \ Range(hits)]
            after == [observer |-> observer, observers |-> unobserved,
                      imageArray |-> imageArray, imageCount |-> Num(count)]
        IN /\ NoJobs
           /\ postDestroy' = IF postDestroy = "no" \/ hits = <<>> THEN postDestroy
                             ELSE IF IsObserver(observer) \/ postDestroy = "loaded"
                             THEN "loaded"
                             ELSE "handled"
           /\ UNCHANGED <<options, ioAvailable, doc>>
           /\ IF hits = <<>>
              THEN /\ SetCtl(IF imageCount = Num(0) THEN resetState(Ctl) ELSE Ctl)
                   /\ last' = Step("notify", NoError)
                   /\ UNCHANGED loads
              ELSE IF ~IsObserver(observer)
              THEN \* observer.unobserve on null: the first hit throws
                   /\ imageCount[1] - 1 >= 0 - MaxUnderflow
                   /\ imageCount' = Num(imageCount[1] - 1)
                   /\ last' = [Step("notify", "TypeError") EXCEPT !.hits = hits]
                   /\ UNCHANGED <<imageArray, observer, observers, loads>>
              ELSE /\ count >= 0 - MaxUnderflow
                   /\ CanIssue(hits)
                   /\ loads' = loads \o LoadEach(doc, hits)
                   /\ SetCtl(IF count = 0 THEN resetState(after) ELSE after)
                   /\ last' = [Step("notify", NoError) EXCEPT !.hits = hits]

\* --------------------------------------------- image probes and reactions

Pending == {i \in 1..Len(loads) : loads[i].st = "pending"}

Remove(s, i) == [j \in 1..(Len(s) - 1) |-> IF j < i THEN s[j] ELSE s[j + 1]]

\* The reaction to the promise loads[i] of loadImage, settled as st by the
\* event or call `by`:
\*   .then(({src, srcset}) => applyImage(img, src, srcset))
\*   .catch(() => handleImageError(img))
\* A callback is the embedder's code: it returns or raises.
React(i, st, by) ==
    \E loadRaises \in {r \in BOOLEAN : ~r \/ (st = "fulfilled" /\ IsCallback("loadCallback"))},
       errorRaises \in {r \in BOOLEAN : ~r \/ IsCallback("errorCallback")} :
        LET l == loads[i]
            e == l.img
            loadCalled == st = "fulfilled" /\ IsCallback("loadCallback")
            loadRaised == loadCalled /\ loadRaises
            caught == st = "rejected" \/ loadRaised
            errorCalled == caught /\ IsCallback("errorCallback")
            errorRaised == errorCalled /\ errorRaises
            applied == IF st = "fulfilled"
                       THEN applyImage(doc[e], l.src, l.srcset) ELSE doc[e]
            handled == IF caught THEN handleImageError(applied) ELSE applied
        IN /\ loads' = Remove(loads, i)
           /\ doc' = [doc EXCEPT ![e] = handled]
           /\ last' = [op |-> "reaction",
                       err |-> IF errorRaised THEN "unhandledrejection" ELSE NoError,
                       hits |-> <<>>,
                       img |-> e,
                       by |-> by,
                       ran |-> (IF st = "fulfilled" THEN <<"applyImage">> ELSE <<>>)
                               \o (IF caught THEN <<"handleImageError">> ELSE <<>>),
                       calls |-> (IF loadCalled THEN <<"loadCallback">> ELSE <<>>)
                                 \o (IF errorCalled THEN <<"errorCallback">> ELSE <<>>),
                       raised |-> (IF loadRaised THEN {"loadCallback"} ELSE {})
                                  \cup (IF errorRaised THEN {"errorCallback"} ELSE {})]
           /\ UNCHANGED <<options, ioAvailable, imageArray, imageCount,
                          observer, observers, postDestroy>>

\* image.onload: resolve({src, srcset}), and the reaction that follows the
\* handler's return.
ImageLoad == \E i \in Pending : NoJobs /\ React(i, "fulfilled", "onload")

\* image.onerror: reject(), and the reaction that follows.
ImageError == \E i \in Pending : NoJobs /\ React(i, "rejected", "onerror")

\* The reaction to the oldest promise that fetchImages rejected itself.
Reaction ==
    /\ ~NoJobs
    /\ React(CHOOSE k \in 1..Len(loads) :
                /\ Settled(loads[k])
                /\ \A j \in 1..(k - 1) : ~Settled(loads[j]),
             "rejected", "reject")

\* --------------------------------------------------------------- the host

\* The host inserts an element matching the selector into the document.
InsertElement ==
    \E e \in Elems, p \in Profiles :
        /\ ~doc[e].present
        /\ doc' = [doc EXCEPT ![e] = NewElement(p)]
        /\ last' = Step("env", NoError)
        /\ UNCHANGED <<options, ioAvailable, imageArray, imageCount, observer,
                       observers, loads, postDestroy>>

Next ==
    \/ InitCall
    \/ UpdateCall
    \/ DestroyCall
    \/ Notify
    \/ ImageLoad
    \/ ImageError
    \/ Reaction
    \/ InsertElement

Spec == Init /\ [][Next]_vars

\* ------------------------------------------- the configuration validator

StringValues == {JsUndefined, JsString("x"), JsString(""), JsNumber(10), JsNull}

ThresholdValues ==
    {JsUndefined, JsNumber(0), JsNumber(50), JsNumber(100), JsNumber(0 - 1),
     JsNumber(101), JsNaN, JsString("0"), JsTrue}

\* Every combination of values for the string options and the threshold.
AllOptions ==
    { [name \in OptionNames |->
          CASE name = "selector" -> s[1]
            [] name = "loadClass" -> s[2]
            [] name = "errorClass" -> s[3]
            [] name = "rootId" -> s[4]
            [] name = "rootMargin" -> s[5]
            [] name = "threshold" -> t
            [] OTHER -> JsUndefined] :
        s \in [1..5 -> StringValues], t \in ThresholdValues }

\* A controller made with any options, on a document of elements that all
\* carry data-src.
ConfigInit ==
    /\ options \in AllOptions
    /\ ioAvailable \in BOOLEAN
    /\ doc = [e \in Elems |-> NewElement([dataSrc |-> SrcUrl, dataSrcset |-> Null])]
    /\ imageArray = <<>>
    /\ imageCount = Undefined
    /\ observer = NoObserver
    /\ observers = <<>>
    /\ loads = <<>>
    /\ postDestroy = "no"
    /\ last = Step("new", NoError)

ConfigNext == InitCall \/ UpdateCall \/ DestroyCall

ConfigSpec == ConfigInit /\ [][ConfigNext]_vars

\* ------------------------------------------------------------- scheduling

\* The Image probe of a pending load of element e reports load or error.
ImageSettles(e) ==
    \E i \in Pending :
        /\ loads[i].img = e
        /\ NoJobs
        /\ (React(i, "fulfilled", "onload") \/ React(i, "rejected", "onerror"))

\* A controller with both callbacks, which return or raise, on a document
\* whose elements are all inserted already.
LoadInit ==
    /\ options = [NoOptions EXCEPT !.loadCallback = JsFunction,
                                   !.errorCallback = JsFunction]
    /\ ioAvailable \in BOOLEAN
    /\ doc \in [Elems -> {NewElement(p) : p \in Profiles}]
    /\ imageArray = <<>>
    /\ imageCount = Undefined
    /\ observer = NoObserver
    /\ observers = <<>>
    /\ loads = <<>>
    /\ postDestroy = "no"
    /\ last = Step("new", NoError)

LoadNext ==
    \/ InitCall
    \/ UpdateCall
    \/ DestroyCall
    \/ Notify
    \/ ImageLoad
    \/ ImageError
    \/ Reaction

\* The host runs every queued promise reaction, and delivers the load or
\* error event of every probe however often other events come first.
FairSpec ==
    /\ LoadInit
    /\ [][LoadNext]_vars
    /\ WF_vars(Reaction)
    /\ \A e \in Elems : SF_vars(ImageSettles(e))

\* onEntry called with a batch in which the entry of e is intersecting.
Reports(e) == Notify /\ e \in Range(last'.hits)

\* As FairSpec, and every element registered with a connected observer is
\* eventually reported as intersecting.
WatchSpec ==
    /\ LoadInit
    /\ [][LoadNext]_vars
    /\ WF_vars(Reaction)
    /\ \A e \in Elems : SF_vars(ImageSettles(e))
    /\ \A e \in Elems : SF_vars(Reports(e))

\* ------------------------------------------------------------- properties

Eligible(e) == doc[e].present /\ hasNotBeenLoaded(doc, e)

ControllerState == <<imageArray, imageCount, observer, observers>>

\* C1: no element ever has two loads (issued by loadImage, not yet reacted
\* to) outstanding at the same time.
AtMostOneLoadInFlight == \A e \in Elems : InFlight(e) <= 1

\* C2: when destroy() has returned the controller is as it was made: no
\* observer, an empty imageArray, and imageCount zero (or still undefined).
DestroyLeavesFreshState ==
    last.op = "destroy" =>
        /\ ~IsObserver(observer)
        /\ imageArray = <<>>
        /\ imageCount \in {Undefined, Num(0)}

\* C3: at most one IntersectionObserver made by the controller is connected.
AtMostOneWatcher == Cardinality(Connected) <= 1

\* C4: between a destroy() and the next init() onEntry handles no
\* intersecting entry and loadImage is not called.
QuietAfterDestroy == postDestroy \notin {"handled", "loaded"}

\* C5: a load once issued is reacted to and the element loses data-src and
\* data-srcset, when every probe eventually reports; and destroy() changes
\* neither the loads in flight nor any element.
LoadRunsToCompletion ==
    /\ \A e \in Elems :
          (InFlight(e) > 0) ~> (InFlight(e) = 0 /\ ~hasNotBeenLoaded(doc, e))
    /\ [][last'.op = "destroy" => loads' = loads /\ doc' = doc]_vars

\* C5 happens: a load was reacted to, and its element stripped, after a
\* destroy() that no init() followed, so destroy() ran while it was in flight.
LoadCompletedAfterDestroy ==
    /\ last.op = "reaction"
    /\ postDestroy = "quiet"
    /\ observers # <<>>
    /\ ~hasNotBeenLoaded(doc, last.img)

\* C6: when loadCallback raises, the error reaches the host, and the failure
\* outcome is not applied: handleImageError does not run and errorCallback
\* is not called for that element.
LoadCallbackErrorPropagates ==
    (last.op = "reaction" /\ "loadCallback" \in last.raised) =>
        /\ last.err # NoError
        /\ "handleImageError" \notin Range(last.ran)
        /\ "errorCallback" \notin Range(last.calls)

ValidStringOption(name) ==
    \/ options[name] = JsUndefined
    \/ (options[name].type = "string" /\ options[name].str # "")

\* The threshold as passed: left out, or a number in [0, 1].
ValidThreshold ==
    \/ options.threshold = JsUndefined
    \/ /\ options.threshold.type = "number"
       /\ options.threshold # JsNaN
       /\ options.threshold.num \in 0..100

ValidOptions ==
    /\ \A i \in 1..Len(StringOptions) : ValidStringOption(StringOptions[i])
    /\ ValidThreshold

\* C8: init() raises exactly when the options are invalid, and the error
\* names an invalid option.
InitRaisesIffInvalid ==
    last.op = "init" =>
        /\ (last.err # NoError) <=> ~ValidOptions
        /\ last.err \in Range(StringOptions) => ~ValidStringOption(last.err)
        /\ last.err = "threshold" => ~ValidThreshold
        /\ last.err \in Range(StringOptions) \cup {"threshold", NoError}

\* C8 happens: init() raised for the threshold with every string option
\* valid and some of them passed.
InitRaisedForThreshold ==
    /\ last.op = "init"
    /\ last.err = "threshold"
    /\ options.rootId # JsUndefined
    /\ options.threshold.type = "number"

\* C9: an init() that raises changes neither the controller, an observer, a
\* load nor an element.
RaisingInitHasNoEffect ==
    [][(last'.op = "init" /\ last'.err # NoError) =>
          UNCHANGED <<ControllerState, loads, doc>>]_vars

\* C9 happens: init() raised on a document with eligible elements, and the
\* controller is still as it was made.
InitRaisedOnEligibleDocument ==
    /\ last.op = "init"
    /\ last.err # NoError
    /\ \E e \in Elems : Eligible(e)
    /\ imageArray = <<>>
    /\ imageCount = Undefined

\* C10: without IntersectionObserver an init() that does not raise makes no
\* observer and issues exactly one load for every eligible element, none for
\* another.
FallbackLoadsEachOnce ==
    [][(last'.op = "init" /\ last'.err = NoError /\ ~ioAvailable) =>
          /\ observers' = <<>>
          /\ ~IsObserver(observer')
          /\ \A e \in Elems :
                InFlight(e)' = InFlight(e) + (IF Eligible(e) THEN 1 ELSE 0)
          /\ Len(loads') = Len(loads) + Len(imageArray')]_vars

\* C10 happens: the fallback init() returned with a load in flight for each
\* of two eligible elements.
FallbackLoadedTwo ==
    /\ last.op = "init"
    /\ ~ioAvailable
    /\ Len(imageArray) = 2
    /\ \A i \in 1..2 : InFlight(imageArray[i]) = 1

LoadClass == Option("loadClass").str
ErrorClass == Option("errorClass").str

\* The step reacted to the promise loads[i].
ReactedTo(i) ==
    /\ last'.op = "reaction"
    /\ i \in 1..Len(loads)
    /\ loads' = Remove(loads, i)
    /\ loads[i].img = last'.img

\* C11: a load issued for an element whose data-src and data-srcset are both
\* absent or empty ends in the failure outcome and never in the success one:
\* only handleImageError runs, the error class is there, errorCallback (if
\* given) is called, loadCallback is not, and src and srcset stay as they were.
NoReferenceAlwaysFails ==
    [][\A i \in 1..Len(loads) :
          (ReactedTo(i) /\ ~Truthy(loads[i].src) /\ ~Truthy(loads[i].srcset)) =>
              LET e == loads[i].img
              IN /\ last'.ran = <<"handleImageError">>
                 /\ ErrorClass \in doc'[e].classList
                 /\ "loadCallback" \notin Range(last'.calls)
                 /\ IsCallback("errorCallback") => "errorCallback" \in Range(last'.calls)
                 /\ doc'[e].src = doc[e].src
                 /\ doc'[e].srcset = doc[e].srcset]_vars

\* C11 happens: the promise that fetchImages rejected itself was reacted to
\* with handleImageError and errorCallback.
SelfRejectedLoadFailed ==
    /\ last.op = "reaction"
    /\ last.by = "reject"
    /\ last.ran = <<"handleImageError">>
    /\ last.calls = <<"errorCallback">>
    /\ ErrorClass \in doc[last.img].classList

\* C12: when the probe reports load, the element gets the src and srcset
\* read from its data- attributes, loses both data- attributes, carries the
\* load class, loadCallback (if given) is called, and neither the error
\* class nor errorCallback is applied.
SuccessAppliesImageOnly ==
    [][\A i \in 1..Len(loads) :
          (ReactedTo(i) /\ last'.by = "onload") =>
              LET l == loads[i]
                  el == doc'[l.img]
              IN /\ Truthy(l.src) => el.src = l.src
                 /\ Truthy(l.srcset) => el.srcset = l.srcset
                 /\ el.dataSrc = Null /\ el.dataSrcset = Null
                 /\ LoadClass \in el.classList
                 /\ IsCallback("loadCallback") => "loadCallback" \in Range(last'.calls)
                 /\ "handleImageError" \notin Range(last'.ran)
                 /\ "errorCallback" \notin Range(last'.calls)
                 /\ ErrorClass \in el.classList => ErrorClass \in doc[l.img].classList]_vars

\* C13: when a load fails (the probe reports error, or fetchImages rejected
\* the promise itself) only handleImageError runs: the element loses both
\* data- attributes, carries the error class, errorCallback (if given) is
\* called, src, srcset and the load class are left alone and loadCallback is
\* not called; and init() or update() with valid options raise nothing.
FailureAppliesErrorOnly ==
    /\ [][(last'.op = "reaction" /\ last'.by \in {"onerror", "reject"}) =>
            LET e == last'.img
            IN /\ last'.ran = <<"handleImageError">>
               /\ doc'[e].dataSrc = Null /\ doc'[e].dataSrcset = Null
               /\ doc'[e].classList = doc[e].classList \cup {ErrorClass}
               /\ last'.calls = IF IsCallback("errorCallback")
                                THEN <<"errorCallback">> ELSE <<>>
               /\ doc'[e].src = doc[e].src
               /\ doc'[e].srcset = doc[e].srcset]_vars
    /\ [](last.op \in {"init", "update"} /\ ValidOptions => last.err = NoError)

\* C13 happens: the probe of an element reported error; the element carries
\* the error class only and errorCallback was called.
ProbeErrorHandled ==
    /\ last.op = "reaction"
    /\ last.by = "onerror"
    /\ last.calls = <<"errorCallback">>
    /\ doc[last.img].classList = {ErrorClass}
    /\ ~hasNotBeenLoaded(doc, last.img)

\* C14: destroy() never raises, and a destroy() that follows a destroy()
\* changes nothing: after destroy() there is no observer, and destroy()
\* without an observer leaves the controller state, the observers, the
\* loads in flight and the elements as they were.
DestroyIsIdempotent ==
    /\ [](last.op = "destroy" => last.err = NoError /\ ~IsObserver(observer))
    /\ [][(last'.op = "destroy" /\ ~IsObserver(observer)) =>
             UNCHANGED <<ControllerState, loads, doc>>]_vars

\* C14 happens: destroy() disconnected the observer while a load was in
\* flight; any further destroy() finds no observer.
DestroyedWhileLoading ==
    /\ last.op = "destroy"
    /\ observers # <<>>
    /\ Connected = {}
    /\ imageArray = <<>>
    /\ imageCount = Num(0)
    /\ loads # <<>>

\* C15: an element is resolved at most once: a resolved element (one that
\* carries the load class or the error class) has no load in flight, no
\* element carries both classes, and the reaction to one load calls at most
\* one of loadCallback and errorCallback.
ResolvedAtMostOnce ==
    /\ \A e \in Elems :
          /\ Cardinality(doc[e].classList) <= 1
          /\ doc[e].classList # {} => InFlight(e) = 0
    /\ last.op = "reaction" => Len(last.calls) <= 1

\* C16: between steps imageCount equals the length of imageArray (before
\* the first init() imageCount is still undefined and imageArray empty).
CountMatchesTracked ==
    imageCount = Undefined \/ imageCount = Num(Len(imageArray))

\* C17: an observer is held only with work pending: whenever there is an
\* observer imageCount is positive, and after a batch that leaves
\* imageCount at 0 there is no observer.
WatchingHasWork ==
    /\ IsObserver(observer) => (imageCount # Undefined /\ imageCount[1] > 0)
    /\ (last.op = "notify" /\ imageCount = Num(0)) => ~IsObserver(observer)

\* The elements registered with the observer o.
Targets(obs, o) == obs[o].targets

\* C18: update() with an observer keeps that observer, creates and
\* disconnects none, leaves the loads in flight alone, keeps every
\* registered element registered, registers every eligible element, and
\* raises imageCount by the number of elements it newly registered.
UpdateAddsNewOnly ==
    [][(last'.op = "update" /\ IsObserver(observer)) =>
          /\ observer' = observer
          /\ Len(observers') = Len(observers)
          /\ Connected' = Connected
          /\ loads' = loads
          /\ Targets(observers, observer) \subseteq Targets(observers', observer)
          /\ \A e \in Elems : Eligible(e) => e \in Targets(observers', observer)
          /\ imageCount' = Num(imageCount[1] +
                Cardinality(Targets(observers', observer)
                               \ Targets(observers, observer)))]_vars

\* C19: a batch without an intersecting entry leaves imageCount, imageArray,
\* the observers and their targets, the loads and the elements unchanged;
\* a batch handled without error lowers imageCount by the number of its
\* intersecting entries and issues one load for each of them, in order.
MissesAreIgnored ==
    [][last'.op = "notify" =>
          /\ last'.hits = <<>> => UNCHANGED <<ControllerState, loads, doc>>
          /\ last'.err = NoError =>
                /\ imageCount' = Num(imageCount[1] - Len(last'.hits))
                /\ Len(loads') = Len(loads) + Len(last'.hits)
                /\ \A i \in 1..Len(last'.hits) :
                      loads'[Len(loads) + i].img = last'.hits[i]]_vars

\* C20 as stated: with an IntersectionObserver (every load then comes from
\* a reported intersection) elements are resolved in the order they were
\* reported: each reaction resolves the oldest load in flight.
ResolvedInReportedOrder ==
    [][(ioAvailable /\ last'.op = "reaction") => loads' = Tail(loads)]_vars

\* C20 amended: loads are issued in the order the observer reported the
\* elements as intersecting, within a batch and across batches (a batch's
\* loads come after all earlier ones, in the order of its intersecting
\* entries); each reaction resolves the element whose promise settled and
\* keeps the other loads in flight in their order.
IssuedInReportedOrder ==
    [][/\ (last'.op = "notify" /\ last'.err = NoError) =>
             /\ Len(loads') = Len(loads) + Len(last'.hits)
             /\ SubSeq(loads', 1, Len(loads)) = loads
             /\ \A i \in 1..Len(last'.hits) :
                   LET l == loads'[Len(loads) + i]
                   IN /\ l.img = last'.hits[i]
                      /\ l.src = doc[l.img].dataSrc
                      /\ l.srcset = doc[l.img].dataSrcset
       /\ last'.op = "reaction" =>
             \E i \in 1..Len(loads) :
                /\ ReactedTo(i)
                /\ last'.by = "reject" => Settled(loads[i])
                /\ ~hasNotBeenLoaded(doc', loads[i].img)]_vars

\* C20 amended happens: a batch reported element 2 before element 1, both
\* intersecting, and their loads were issued in that order.
BatchIssuedInReportedOrder ==
    /\ last.op = "notify"
    /\ last.hits = <<2, 1>>
    /\ Len(loads) = 2
    /\ loads[1].img = 2
    /\ loads[2].img = 1

\* C21: handling a batch never raises (the observer handle is there when
\* onEntry calls observer.unobserve) and imageCount never falls below zero.
NotifyNeverRaises ==
    /\ last.op = "notify" => last.err = NoError
    /\ imageCount # Undefined => imageCount[1] >= 0

\* C22: with every registered element eventually reported as intersecting,
\* the controller eventually holds no observer: once no connected observer
\* has an element left to report, a controller that holds an observer comes
\* to hold none (it has disconnected and dropped it), unless init() or
\* update() is called again.
EventuallyIdle ==
    (/\ IsObserver(observer)
     /\ \A o \in Connected : observers[o].targets = {}
     /\ last.op \notin {"init", "update"})
        ~> (~IsObserver(observer) \/ last.op \in {"init", "update"})

====
